---- MODULE Spec2Model ----
(***************************************************************************)
(* The macOS output parsers of wifiscanner (src/sys/macos.rs):             *)
(*   parse_airport        column-offset parser of `airport -s` tables      *)
(*   parse_systemprofiler parser of `system_profiler -json` documents      *)
(*                                                                         *)
(* A Rust string is modelled as what it is, a sequence of UTF-8 bytes.     *)
(* An ASCII byte is written as the one-character string of its character;  *)
(* the two bytes of the two-byte character U+00E9 are written "C3" and     *)
(* "A9".  str::find returns byte offsets and the index operator slices by  *)
(* byte offset and panics off a character boundary, exactly as in Rust.    *)
(* A panic is modelled as the result kind "Panic" (no value is returned).  *)
(***************************************************************************)
EXTENDS Integers, Sequences, FiniteSets, TLC

VARIABLES
    callee,        \* which parser this run calls
    pc,            \* position in the called parser
    network_list,  \* parse_airport's argument (bytes)
    text,          \* parse_systemprofiler's argument (the JSON value of the text)
    headers,       \* parse_airport: the first line
    lines,         \* parse_airport: the lines iterator (what is left of it)
    col_headers,   \* parse_airport: the five byte offsets
    interfaces,    \* parse_systemprofiler: the flattened interface iterator
    networks,      \* parse_systemprofiler: the inner loop's iterator
    wifis,         \* the Vec<Wifi> being built
    result         \* what the call returned

vars == <<callee, pc, network_list, text, headers, lines, col_headers,
          interfaces, networks, wifis, result>>

-----------------------------------------------------------------------------
(* Option<T> *)
None == <<>>
Some(v) == <<v>>

UnwrapOr(opt, default) == IF opt = None THEN default ELSE opt[1]

-----------------------------------------------------------------------------
(* Bytes and strings *)
LF == "\n"
CR == "\r"

\* the second byte of a two-byte UTF-8 character (10xxxxxx)
IsContinuation(b) == b \in {"A9"}

IsWhitespace(c) == c \in {" ", "\t", LF, CR}

Min(S) == CHOOSE x \in S : \A y \in S : x <= y

\* str::find: the byte offset of the first match
Find(haystack, needle) ==
    LET n == Len(needle)
        at == {i \in 0..(Len(haystack) - n) : SubSeq(haystack, i + 1, i + n) = needle}
    IN  IF at = {} THEN None ELSE Some(Min(at))

\* str::trim
RECURSIVE TrimStart(_)
TrimStart(s) ==
    IF s # <<>> /\ IsWhitespace(Head(s)) THEN TrimStart(Tail(s)) ELSE s

RECURSIVE TrimEnd(_)
TrimEnd(s) ==
    IF s # <<>> /\ IsWhitespace(s[Len(s)])
    THEN TrimEnd(SubSeq(s, 1, Len(s) - 1))
    ELSE s

Trim(s) == TrimEnd(TrimStart(s))

\* str::is_char_boundary
IsCharBoundary(s, i) ==
    \/ i = 0
    \/ i = Len(s)
    \/ i < Len(s) /\ ~IsContinuation(s[i + 1])

\* &s[from..to] and &s[from..]: whether the index operator returns, and what
SliceOk(s, from, to) ==
    /\ from <= to
    /\ to <= Len(s)
    /\ IsCharBoundary(s, from)
    /\ IsCharBoundary(s, to)

Slice(s, from, to) == SubSeq(s, from + 1, to)

\* str::lines: split at "\n", dropping a "\r" before it and the empty rest
\* after a final "\n"
StripCR(line) ==
    IF line # <<>> /\ line[Len(line)] = CR
    THEN SubSeq(line, 1, Len(line) - 1)
    ELSE line

RECURSIVE SplitLines(_)
SplitLines(s) ==
    LET nl == Find(s, <<LF>>)
    IN  IF nl = None
        THEN <<s>>
        ELSE <<StripCR(SubSeq(s, 1, nl[1]))>>
                 \o SplitLines(SubSeq(s, nl[1] + 2, Len(s)))

LinesKeepsEmpty(s) == SplitLines(s)
Lines(s) ==
    LET parts == SplitLines(s)
    IN  IF parts[Len(parts)] = <<>>
        THEN SubSeq(parts, 1, Len(parts) - 1)
        ELSE parts

-----------------------------------------------------------------------------
(* Results *)
NoResult == [kind |-> "None", error |-> <<>>, value |-> <<>>]
Ok(v) == [kind |-> "Ok", error |-> <<>>, value |-> v]
Err(e) == [kind |-> "Err", error |-> e, value |-> <<>>]
Panic == [kind |-> "Panic", error |-> <<>>, value |-> <<>>]

-----------------------------------------------------------------------------
(* parse_airport *)
BSSID == <<"B", "S", "S", "I", "D">>
RSSI == <<"R", "S", "S", "I">>
CHANNEL == <<"C", "H", "A", "N", "N", "E", "L">>
HT == <<"H", "T">>
SECURITY == <<"S", "E", "C", "U", "R", "I", "T", "Y">>

Labels == <<BSSID, RSSI, CHANNEL, HT, SECURITY>>

\* the &'static str given to .context(): a plain literal, not a format string
HeaderNotFound ==
    <<"H", "e", "a", "d", "e", "r", "N", "o", "t", "F", "o", "u", "n", "d">>
ContextMessage ==
    HeaderNotFound \o <<" ", "i", "n", " ", "{", "h", "e", "a", "d", "e", "r", ":", "?", "}">>

\* the five finds, collected into Result<Vec<usize>>: the first None is the error
FoundHeaders(h) == [i \in 1..Len(Labels) |-> Find(h, Labels[i])]

CollectHeadersOrZero(h) ==
    LET found == FoundHeaders(h)
    IN  Ok([i \in 1..Len(found) |-> UnwrapOr(found[i], 0)])
CollectHeaders(h) ==
    LET found == FoundHeaders(h)
    IN  IF \E i \in 1..Len(found) : found[i] = None
        THEN Err(ContextMessage)
        ELSE Ok([i \in 1..Len(found) |-> found[i][1]])

\* the five slices of the loop body
LineOk(line, cols) ==
    /\ SliceOk(line, 0, cols[1])
    /\ SliceOk(line, cols[1], cols[2])
    /\ SliceOk(line, cols[2], cols[3])
    /\ SliceOk(line, cols[3], cols[4])
    /\ SliceOk(line, cols[5], Len(line))

WifiOfLineUsesHt(line, cols) ==
    [mac |-> Some(Trim(Slice(line, cols[1], cols[2]))),
     ssid |-> Trim(Slice(line, 0, cols[1])),
     channel |-> Trim(Slice(line, cols[3], cols[4])),
     signal_level |-> Trim(Slice(line, cols[2], cols[3])),
     security |-> Trim(Slice(line, cols[4], Len(line)))]
WifiOfLine(line, cols) ==
    [mac |-> Some(Trim(Slice(line, cols[1], cols[2]))),
     ssid |-> Trim(Slice(line, 0, cols[1])),
     channel |-> Trim(Slice(line, cols[3], cols[4])),
     signal_level |-> Trim(Slice(line, cols[2], cols[3])),
     security |-> Trim(Slice(line, cols[5], Len(line)))]

\* lines.next(): an empty network_list returns Ok(vec![])
NextHeader ==
    /\ callee = "parse_airport"
    /\ pc = "start"
    /\ LET ls == Lines(network_list)
       IN  IF ls = <<>>
           THEN /\ result' = Ok(<<>>)
                /\ pc' = "done"
                /\ UNCHANGED <<headers, lines>>
           ELSE /\ headers' = Head(ls)
                /\ lines' = Tail(ls)
                /\ pc' = "find"
                /\ UNCHANGED result
    /\ UNCHANGED <<callee, network_list, text, col_headers, interfaces, networks, wifis>>

\* the col_headers collect and its `?`
FindHeaders ==
    /\ callee = "parse_airport"
    /\ pc = "find"
    /\ LET r == CollectHeaders(headers)
       IN  IF r.kind = "Err"
           THEN /\ result' = r
                /\ pc' = "done"
                /\ UNCHANGED col_headers
           ELSE /\ col_headers' = r.value
                /\ pc' = "rows"
                /\ UNCHANGED result
    /\ UNCHANGED <<callee, network_list, text, headers, lines, interfaces, networks, wifis>>

\* one iteration of `for line in lines`
SliceLine ==
    /\ callee = "parse_airport"
    /\ pc = "rows"
    /\ lines # <<>>
    /\ LET line == Head(lines)
       IN  IF LineOk(line, col_headers)
           THEN /\ wifis' = Append(wifis, WifiOfLine(line, col_headers))
                /\ lines' = Tail(lines)
                /\ UNCHANGED <<pc, result>>
           ELSE /\ result' = Panic
                /\ pc' = "done"
                /\ UNCHANGED <<wifis, lines>>
    /\ UNCHANGED <<callee, network_list, text, headers, col_headers, interfaces, networks>>

\* Ok(wifis)
ReturnAirport ==
    /\ callee = "parse_airport"
    /\ pc = "rows"
    /\ lines = <<>>
    /\ result' = Ok(wifis)
    /\ pc' = "done"
    /\ UNCHANGED <<callee, network_list, text, headers, lines, col_headers,
                   interfaces, networks, wifis>>

-----------------------------------------------------------------------------
(* parse_systemprofiler *)

\* "spairport_security_mode_"
SecurityPrefix ==
    <<"s", "p", "a", "i", "r", "p", "o", "r", "t", "_",
      "s", "e", "c", "u", "r", "i", "t", "y", "_",
      "m", "o", "d", "e", "_">>

\* str::strip_prefix
StripPrefixNever(s, prefix) == None
StripPrefix(s, prefix) ==
    IF Len(s) >= Len(prefix) /\ SubSeq(s, 1, Len(prefix)) = prefix
    THEN Some(SubSeq(s, Len(prefix) + 1, Len(s)))
    ELSE None

\* str::split(char), collected
RECURSIVE Split(_, _)
Split(s, sep) ==
    LET at == Find(s, <<sep>>)
    IN  IF at = None
        THEN <<s>>
        ELSE <<SubSeq(s, 1, at[1])>> \o Split(SubSeq(s, at[1] + 2, Len(s)), sep)

\* Iterator::nth
Nth(it, n) == IF n + 1 <= Len(it) THEN Some(it[n + 1]) ELSE None

\* Iterator::flatten over the per-entry interface lists
RECURSIVE FlattenReversed(_)
FlattenReversed(ss) == IF ss = <<>> THEN <<>> ELSE FlattenReversed(Tail(ss)) \o Head(ss)

RECURSIVE Flatten(_)
Flatten(ss) == IF ss = <<>> THEN <<>> ELSE Head(ss) \o Flatten(Tail(ss))

\* the serde schema: the keys each struct requires
WifiPointKeys ==
    {"_name", "spairport_network_channel", "spairport_security_mode",
     "spairport_signal_noise"}

WifiPointConforms(w) == WifiPointKeys \subseteq DOMAIN w

InterfaceConforms(i) ==
    "spairport_airport_other_local_wireless_networks" \in DOMAIN i =>
        LET ns == i.spairport_airport_other_local_wireless_networks
        IN  \A n \in 1..Len(ns) : WifiPointConforms(ns[n])

InterfacesConforms(e) ==
    /\ "spairport_airport_interfaces" \in DOMAIN e
    /\ LET is == e.spairport_airport_interfaces
       IN  \A n \in 1..Len(is) : InterfaceConforms(is[n])

Conforms(doc) ==
    /\ "SPAirPortDataType" \in DOMAIN doc
    /\ LET es == doc.SPAirPortDataType
       IN  \A n \in 1..Len(es) : InterfacesConforms(es[n])

\* Interface: the Option field is None when the key is absent
Interface(i) ==
    [spairport_airport_other_local_wireless_networks |->
        IF "spairport_airport_other_local_wireless_networks" \in DOMAIN i
        THEN Some(i.spairport_airport_other_local_wireless_networks)
        ELSE None]

\* serde_json::from_str::<SystemProfilerData>
FromStr(doc) ==
    IF Conforms(doc)
    THEN Ok([e \in 1..Len(doc.SPAirPortDataType) |->
                LET is == doc.SPAirPortDataType[e].spairport_airport_interfaces
                IN  [n \in 1..Len(is) |-> Interface(is[n])]])
    ELSE Err(<<"M", "a", "l", "f", "o", "r", "m", "e", "d">>)

\* the body of the inner loop
SecurityOf(security) == UnwrapOr(StripPrefix(security, SecurityPrefix), security)

SignalLevelUntrimmed(signal_noise) == UnwrapOr(Nth(Split(signal_noise, "/"), 0), <<>>)
SignalLevelOf(signal_noise) == Trim(UnwrapOr(Nth(Split(signal_noise, "/"), 0), <<>>))

WifiOfPoint(wifi) ==
    [mac |-> None,
     ssid |-> wifi._name,
     channel |-> wifi.spairport_network_channel,
     security |-> SecurityOf(wifi.spairport_security_mode),
     signal_level |-> SignalLevelOf(wifi.spairport_signal_noise)]

\* serde_json::from_str(&text)? and the start of the outer loop
Deserialize ==
    /\ callee = "parse_systemprofiler"
    /\ pc = "start"
    /\ LET data == FromStr(text)
       IN  IF data.kind = "Err"
           THEN /\ result' = data
                /\ pc' = "done"
                /\ UNCHANGED interfaces
           ELSE /\ interfaces' = Flatten(data.value)
                /\ pc' = "interfaces"
                /\ UNCHANGED result
    /\ UNCHANGED <<callee, network_list, text, headers, lines, col_headers, networks, wifis>>

\* `for interface in ...`: the next interface, and its list unwrap_or(vec![])
NextInterface ==
    /\ callee = "parse_systemprofiler"
    /\ pc = "interfaces"
    /\ interfaces # <<>>
    /\ networks' = UnwrapOr(Head(interfaces).spairport_airport_other_local_wireless_networks, <<>>)
    /\ interfaces' = Tail(interfaces)
    /\ pc' = "networks"
    /\ UNCHANGED <<callee, network_list, text, headers, lines, col_headers, wifis, result>>

\* one iteration of `for wifi in ...`
PushWifi ==
    /\ callee = "parse_systemprofiler"
    /\ pc = "networks"
    /\ networks # <<>>
    /\ wifis' = Append(wifis, WifiOfPoint(Head(networks)))
    /\ networks' = Tail(networks)
    /\ UNCHANGED <<callee, pc, network_list, text, headers, lines, col_headers,
                   interfaces, result>>

\* the inner loop is over
EndInterface ==
    /\ callee = "parse_systemprofiler"
    /\ pc = "networks"
    /\ networks = <<>>
    /\ pc' = "interfaces"
    /\ UNCHANGED <<callee, network_list, text, headers, lines, col_headers,
                   interfaces, networks, wifis, result>>

\* Ok(wifis)
ReturnSystemProfiler ==
    /\ callee = "parse_systemprofiler"
    /\ pc = "interfaces"
    /\ interfaces = <<>>
    /\ result' = Ok(wifis)
    /\ pc' = "done"
    /\ UNCHANGED <<callee, network_list, text, headers, lines, col_headers,
                   interfaces, networks, wifis>>

-----------------------------------------------------------------------------
(* The inputs *)

MaxLines == 2   \* data lines of a table
MaxNodes == 6   \* entries + interfaces + networks of a document

RECURSIVE SeqsUpTo(_, _)
SeqsUpTo(n, S) ==
    IF n = 0
    THEN {<<>>}
    ELSE LET shorter == SeqsUpTo(n - 1, S)
         IN  shorter \cup {Append(q, x) : q \in {r \in shorter : Len(r) = n - 1}, x \in S}

RECURSIVE Join(_, _)
Join(ss, sep) ==
    IF ss = <<>> THEN <<>>
    ELSE IF Len(ss) = 1 THEN ss[1]
    ELSE ss[1] \o sep \o Join(Tail(ss), sep)

Spaces(n) == [i \in 1..n |-> " "]

\* the number of characters of a string
CharLen(s) == Cardinality({i \in 1..Len(s) : ~IsContinuation(s[i])})

\* s, then spaces up to w characters
Pad(s, w) == s \o Spaces(w - CharLen(s))

E9 == <<"C3", "A9">>

CanonicalHeader == <<"S", " ">> \o Join(Labels, <<" ">>)

\* header lines: the five labels, one of them missing, two of them
\* swapped, a two-byte character before them, nothing at all
HeaderLines ==
    {CanonicalHeader,
     Join(Labels, <<" ">>),
     <<"S", " ", " ">> \o Join(Labels, <<" ", " ">>),
     E9 \o <<" ">> \o Join(Labels, <<" ">>),
     <<"S", " ">> \o Join(<<RSSI, CHANNEL, HT, SECURITY>>, <<" ">>),
     <<"S", " ">> \o Join(<<BSSID, CHANNEL, HT, SECURITY>>, <<" ">>),
     <<"S", " ">> \o Join(<<BSSID, RSSI, HT, SECURITY>>, <<" ">>),
     <<"S", " ">> \o Join(<<BSSID, RSSI, CHANNEL, SECURITY>>, <<" ">>),
     <<"S", " ">> \o Join(<<BSSID, RSSI, CHANNEL, HT>>, <<" ">>),
     <<"S", " ">> \o Join(<<RSSI, BSSID, CHANNEL, HT, SECURITY>>, <<" ">>),
     <<>>}

\* a data line laid out in characters under CanonicalHeader
Row(ssid, mac, signal, channel, ht, security) ==
    Pad(ssid, 2) \o Pad(mac, 6) \o Pad(signal, 5) \o Pad(channel, 8) \o Pad(ht, 3) \o security

Mac == <<"0", "0", ":", "3", "5">>
Wpa == <<"W", "P", "A">>

\* data lines aligned to the canonical header when counted in characters
AlignedLines ==
    {Row(<<"a">>, Mac, <<"-", "7", "0">>, <<"1", "1", "2">>, <<"Y">>, Wpa),
     Row(<<"b">>, <<"0", "1", ":", "3", "6", "f">>, <<"-", "6", "7">>, <<"1">>, <<"N">>,
         Wpa \o <<"(", "P", "S", "K", ")", " ">>),
     Row(<<>>, <<>>, <<>>, <<>>, <<>>, <<>>),
     \* with a two-byte character in the SSID
     Row(<<"a">> \o E9, Mac, <<"-", "7", "0">>, <<"1", "1", "2">>, <<"Y">>, Wpa),
     Row(E9 \o E9, Mac, <<"-", "7", "0">>, <<"1", "1", "2">>, <<"Y">>, Wpa),
     Row(E9, Mac, <<"-", "7", "0">>, <<"1", "1", "2">>, <<"Y">>, Wpa)}

DataLines ==
    AlignedLines \cup
    {\* a two-byte character in the SSID, the line aligned in bytes
     E9 \o Row(<<>>, <<>>, <<>>, <<>>, <<>>, <<>>),
     \* lines shorter than the columns
     SubSeq(Row(<<"a">>, Mac, <<"-", "7", "0">>, <<"1", "1", "2">>, <<"Y">>, <<>>), 1, 23),
     <<>>}

Endings == {<<>>, <<LF>>, <<CR, LF>>}

NetworkLists ==
    {<<>>} \cup
    {Join(<<h>> \o rows, <<LF>>) \o e :
        h \in HeaderLines, rows \in SeqsUpTo(MaxLines, DataLines), e \in Endings}

\* network entries of a document
Point(name, channel, security, signal_noise) ==
    [_name |-> name,
     spairport_network_channel |-> channel,
     spairport_security_mode |-> security,
     spairport_signal_noise |-> signal_noise]

Pool ==
    <<Point(<<"T", "W">>, <<"1">>, SecurityPrefix \o <<"w", "p", "a", "2">>,
            <<"-", "6", "7", " ", "/", " ", "-", "9", "0">>),
      Point(<<"a">>, <<"3", "6", " ", "(", "5", ")">>, <<"n", "o", "n", "e">>,
            <<"-", "6", "7", "/", "-", "9", "0">>),
      Point(<<"b", " ">>, <<"6">>, SecurityPrefix \o SecurityPrefix \o <<"x">>,
            <<"-", "6", "7">>),
      Point(<<>>, <<>>, <<>>, <<>>),
      Point(<<"c">>, <<"1", "1">>, SecurityPrefix, <<"/", "-", "9", "0">>),
      Point(<<"d">>, <<"4">>, SubSeq(SecurityPrefix, 1, 10) \o <<"x">>,
            <<" ", "-", "5", "/", "-", "9", "/", "1", " ">>)>>

PoolAt(n) == Pool[(n % Len(Pool)) + 1]

\* The shape of a document: per entry, per interface, the length of its
\* network list, or -1 for an interface without the list.
Count(f) == IF f < 0 THEN 0 ELSE f

RECURSIVE Sum(_)
Sum(q) == IF q = <<>> THEN 0 ELSE Head(q) + Sum(Tail(q))

NetworksIn(e) == Sum([i \in 1..Len(e) |-> Count(e[i])])
NodesIn(e) == 1 + Len(e) + NetworksIn(e)

\* interface lists of at most n nodes
RECURSIVE InterfaceShapes(_)
InterfaceShapes(n) ==
    IF n <= 0 THEN {<<>>} ELSE
    {<<>>} \cup
    UNION {{<<f>> \o rest : rest \in InterfaceShapes(n - 1 - Count(f))} : f \in -1..(n - 1)}

\* entry lists of at most n nodes
RECURSIVE Shapes(_)
Shapes(n) ==
    IF n <= 0 THEN {<<>>} ELSE
    {<<>>} \cup
    UNION {{<<e>> \o rest : rest \in Shapes(n - NodesIn(e))} : e \in InterfaceShapes(n - 1)}

En0 == <<"e", "n", "0">>

InterfaceObject(f, first) ==
    IF f < 0
    THEN [_name |-> En0]
    ELSE [_name |-> En0,
          spairport_airport_other_local_wireless_networks |->
              [j \in 1..f |-> PoolAt(first + j - 1)]]

EntryObject(e, first) ==
    [spairport_airport_interfaces |->
        [i \in 1..Len(e) |-> InterfaceObject(e[i], first + NetworksIn(SubSeq(e, 1, i - 1)))]]

Document(shape, first) ==
    [SPAirPortDataType |->
        [n \in 1..Len(shape) |->
            EntryObject(shape[n],
                        first + Sum([m \in 1..(n - 1) |-> NetworksIn(shape[m])]))]]

\* documents that do not match the schema
NonConforming ==
    {[SPUnknownDataType |-> <<>>],
     [SPAirPortDataType |-> <<[_name |-> En0]>>],
     [SPAirPortDataType |->
        <<[spairport_airport_interfaces |->
            <<[_name |-> En0,
               spairport_airport_other_local_wireless_networks |->
                   <<Pool[1], [_name |-> <<"x">>]>>]>>]>>]}

Documents ==
    NonConforming \cup
    {Document(shape, first) : shape \in Shapes(MaxNodes), first \in 0..(Len(Pool) - 1)}

-----------------------------------------------------------------------------
Init ==
    /\ callee \in {"parse_airport", "parse_systemprofiler"}
    /\ IF callee = "parse_airport"
       THEN network_list \in NetworkLists /\ text = [SPAirPortDataType |-> <<>>]
       ELSE network_list = <<>> /\ text \in Documents
    /\ pc = "start"
    /\ headers = <<>>
    /\ lines = <<>>
    /\ col_headers = <<>>
    /\ interfaces = <<>>
    /\ networks = <<>>
    /\ wifis = <<>>
    /\ result = NoResult

Next ==
    \/ NextHeader
    \/ FindHeaders
    \/ SliceLine
    \/ ReturnAirport
    \/ Deserialize
    \/ NextInterface
    \/ PushWifi
    \/ EndInterface
    \/ ReturnSystemProfiler

Spec == Init /\ [][Next]_vars

-----------------------------------------------------------------------------
(* What the claims speak of, stated on the inputs *)

Done == pc = "done"
Airport == callee = "parse_airport"
SystemProfiler == callee = "parse_systemprofiler"

Occurs(needle, hay) ==
    \E i \in 0..(Len(hay) - Len(needle)) : SubSeq(hay, i + 1, i + Len(needle)) = needle

\* the offset of the first occurrence (of an occurring needle)
OffsetOf(needle, hay) ==
    CHOOSE i \in 0..(Len(hay) - Len(needle)) :
        /\ SubSeq(hay, i + 1, i + Len(needle)) = needle
        /\ \A j \in 0..(i - 1) : SubSeq(hay, j + 1, j + Len(needle)) # needle

Increasing(q) == \A i \in 1..(Len(q) - 1) : q[i] < q[i + 1]

\* s without its leading and trailing whitespace
Trimmed(s) ==
    LET black == {i \in 1..Len(s) : ~IsWhitespace(s[i])}
    IN  IF black = {}
        THEN <<>>
        ELSE SubSeq(s, CHOOSE i \in black : \A j \in black : i <= j,
                       CHOOSE i \in black : \A j \in black : i >= j)

\* the characters of a string, each the sequence of its bytes
RECURSIVE Chars(_)
Chars(s) ==
    IF s = <<>> THEN <<>>
    ELSE IF Len(s) >= 2 /\ IsContinuation(s[2])
         THEN <<SubSeq(s, 1, 2)>> \o Chars(SubSeq(s, 3, Len(s)))
         ELSE <<SubSeq(s, 1, 1)>> \o Chars(Tail(s))

RECURSIVE Concat(_)
Concat(ss) == IF ss = <<>> THEN <<>> ELSE Concat(SubSeq(ss, 1, Len(ss) - 1)) \o ss[Len(ss)]

SingleByte(s) == \A i \in 1..Len(s) : s[i] \notin {"C3", "A9"}

\* the characters at positions from..to-1
CharSlice(s, from, to) == Concat(SubSeq(Chars(s), from + 1, to))

HeaderLine == Head(Lines(network_list))
DataRows == Tail(Lines(network_list))
HasLines == Lines(network_list) # <<>>

AllLabelsOccur(h) == \A i \in 1..Len(Labels) : Occurs(Labels[i], h)

\* the offsets of the five labels in the header, in bytes and in characters
ByteOffsets(h) == [i \in 1..Len(Labels) |-> OffsetOf(Labels[i], h)]
CharOffsets(h) == [i \in 1..Len(Labels) |-> OffsetOf(Chars(Labels[i]), Chars(h))]

\* the record of a line sliced at character positions
CharRecord(line, o) ==
    [mac |-> Some(Trimmed(CharSlice(line, o[1], o[2]))),
     ssid |-> Trimmed(CharSlice(line, 0, o[1])),
     channel |-> Trimmed(CharSlice(line, o[3], o[4])),
     signal_level |-> Trimmed(CharSlice(line, o[2], o[3])),
     security |-> Trimmed(CharSlice(line, o[5], Len(Chars(line))))]

\* a header with the five labels in order, every data line reaching SECURITY
WellFormedTable ==
    /\ HasLines
    /\ AllLabelsOccur(HeaderLine)
    /\ Increasing(ByteOffsets(HeaderLine))
    /\ \A i \in 1..Len(DataRows) :
           Len(Chars(DataRows[i])) >= ByteOffsets(HeaderLine)[5]

\* the record of a line sliced at byte positions
ByteRecord(line, o) ==
    [mac |-> Some(Trimmed(SubSeq(line, o[1] + 1, o[2]))),
     ssid |-> Trimmed(SubSeq(line, 1, o[1])),
     channel |-> Trimmed(SubSeq(line, o[3] + 1, o[4])),
     signal_level |-> Trimmed(SubSeq(line, o[2] + 1, o[3])),
     security |-> Trimmed(SubSeq(line, o[5] + 1, Len(line)))]

OneRecordPerLine ==
    /\ result.kind = "Ok"
    /\ Len(result.value) = Len(DataRows)
    /\ \A i \in 1..Len(DataRows) :
           result.value[i] = ByteRecord(DataRows[i], ByteOffsets(HeaderLine))

\* C1: every well-formed table (five labels in order, every data line at
\* least as long as the SECURITY offset) parses to one record per data line,
\* the i-th record from the i-th line.
C1_OneRecordPerDataLine ==
    (Airport /\ Done /\ WellFormedTable) => OneRecordPerLine

\* The same on tables of single-byte characters only.
C1_OnSingleByteTables ==
    (Airport /\ Done /\ WellFormedTable /\ SingleByte(network_list)) => OneRecordPerLine

\* C2: on a well-formed table of single-byte characters, every returned
\* record is (ssid, mac, signal_level, channel, security) = the trimmed
\* slices [0,b) [b,r) [r,c) [c,h) [s,end) of its line; [h,s) is in no field,
\* and blank slices give empty fields.
C2_FieldsAreTheTrimmedSlices ==
    (Airport /\ Done /\ result.kind = "Ok" /\ HasLines /\ WellFormedTable
        /\ SingleByte(network_list)) =>
    LET o == ByteOffsets(HeaderLine)
    IN  /\ Len(result.value) = Len(DataRows)
        /\ \A i \in 1..Len(result.value) :
            LET line == DataRows[i]
                rec == result.value[i]
            IN  /\ rec.ssid = Trimmed(SubSeq(line, 1, o[1]))
                /\ rec.mac = Some(Trimmed(SubSeq(line, o[1] + 1, o[2])))
                /\ rec.signal_level = Trimmed(SubSeq(line, o[2] + 1, o[3]))
                /\ rec.channel = Trimmed(SubSeq(line, o[3] + 1, o[4]))
                /\ rec.security = Trimmed(SubSeq(line, o[5] + 1, Len(line)))

BlankRecord ==
    [mac |-> Some(<<>>), ssid |-> <<>>, channel |-> <<>>, signal_level |-> <<>>,
     security |-> <<>>]

\* a blank line and a full line, each with its record, the HT value "Y" in neither
C2_Witness ==
    /\ Airport /\ Done /\ result.kind = "Ok" /\ WellFormedTable
    /\ SingleByte(network_list)
    /\ Len(result.value) = 2
    /\ result.value[1] = BlankRecord
    /\ result.value[2] =
           [mac |-> Some(Mac), ssid |-> <<"a">>, channel |-> <<"1", "1", "2">>,
            signal_level |-> <<"-", "7", "0">>, security |-> Wpa]
    /\ DataRows[2][ByteOffsets(HeaderLine)[4] + 1] = "Y"

SomeLabelMissing == HasLines /\ ~AllLabelsOccur(HeaderLine)

StartsWith(s, prefix) == Len(s) >= Len(prefix) /\ SubSeq(s, 1, Len(prefix)) = prefix

\* C3: a first line lacking any of the five labels gives a HeaderNotFound
\* error and no record, whatever follows; no data line has been sliced.
C3_MissingLabelIsHeaderNotFound ==
    (Airport /\ Done /\ SomeLabelMissing) =>
        /\ result.kind = "Err"
        /\ StartsWith(result.error, HeaderNotFound)
        /\ result.value = <<>>
        /\ wifis = <<>>
        /\ lines = DataRows

C3_Witness ==
    /\ Airport /\ Done /\ SomeLabelMissing
    /\ Occurs(BSSID, HeaderLine) /\ ~Occurs(HT, HeaderLine)
    /\ Len(DataRows) = 2
    /\ result.kind = "Err"

\* the first label, in the order of Labels, that the header lacks
FirstMissing(h) ==
    Labels[CHOOSE i \in 1..Len(Labels) :
               /\ ~Occurs(Labels[i], h)
               /\ \A j \in 1..(i - 1) : Occurs(Labels[j], h)]

\* C4: the HeaderNotFound error carries the text of the first missing label.
C4_ErrorNamesTheMissingLabel ==
    (Airport /\ Done /\ SomeLabelMissing) =>
        /\ result.kind = "Err"
        /\ Occurs(FirstMissing(HeaderLine), result.error)

ValidHeader ==
    HasLines /\ AllLabelsOccur(HeaderLine) /\ Increasing(ByteOffsets(HeaderLine))

SomeRowTooShort ==
    \E i \in 1..Len(DataRows) : Len(DataRows[i]) < ByteOffsets(HeaderLine)[5]

\* C5: under a valid header, a data line shorter than the column offsets
\* gives an error value and no records, not a crash.
C5_ShortRowIsAnError ==
    (Airport /\ Done /\ ValidHeader /\ SomeRowTooShort) =>
        /\ result.kind = "Err"
        /\ result.value = <<>>

\* a header line with the five labels, alone, with or without its line end
HeaderOnly ==
    \E h \in HeaderLines, e \in Endings :
        AllLabelsOccur(h) /\ network_list = h \o e

\* every interface of the document without networks
NoNetworks(doc) ==
    \A e \in 1..Len(doc.SPAirPortDataType) :
        LET is == doc.SPAirPortDataType[e].spairport_airport_interfaces
        IN  \A i \in 1..Len(is) :
                "spairport_airport_other_local_wireless_networks" \in DOMAIN is[i] =>
                    is[i].spairport_airport_other_local_wireless_networks = <<>>

\* C6: empty well-formed input is Ok(empty): no text at all, a header line
\* alone, a conforming document without any network.
C6_EmptyInputIsOkEmpty ==
    /\ (Airport /\ Done /\ network_list = <<>>) => result = Ok(<<>>)
    /\ (Airport /\ Done /\ HeaderOnly) => result = Ok(<<>>)
    /\ (SystemProfiler /\ Done /\ Conforms(text) /\ NoNetworks(text)) => result = Ok(<<>>)

C6_WitnessNoText ==
    /\ Airport /\ Done /\ network_list = <<>>
    /\ result = Ok(<<>>)

C6_WitnessHeaderOnly ==
    /\ Airport /\ Done /\ HeaderOnly /\ result = Ok(<<>>)

C6_WitnessNoNetworks ==
    /\ SystemProfiler /\ Done /\ Conforms(text) /\ NoNetworks(text)
    /\ \E e \in 1..Len(text.SPAirPortDataType) :
           Len(text.SPAirPortDataType[e].spairport_airport_interfaces) >= 2
    /\ result = Ok(<<>>)

\* the network entries of a document, in document order
NetworksOfInterface(i) ==
    IF "spairport_airport_other_local_wireless_networks" \in DOMAIN i
    THEN i.spairport_airport_other_local_wireless_networks
    ELSE <<>>

NetworksOfEntry(e) ==
    Concat([i \in 1..Len(e.spairport_airport_interfaces) |->
               NetworksOfInterface(e.spairport_airport_interfaces[i])])

NetworksOf(doc) ==
    Concat([e \in 1..Len(doc.SPAirPortDataType) |->
               NetworksOfEntry(doc.SPAirPortDataType[e])])

\* C7: a conforming document gives one record per network entry, in
\* document order (interface, then network), interfaces without a list
\* giving none; every record has mac = None and the entry's name and channel.
C7_OneRecordPerNetworkInOrder ==
    (SystemProfiler /\ Done /\ Conforms(text)) =>
        LET ns == NetworksOf(text)
        IN  /\ result.kind = "Ok"
            /\ Len(result.value) = Len(ns)
            /\ \A i \in 1..Len(ns) :
                   /\ result.value[i].mac = None
                   /\ result.value[i].ssid = ns[i]._name
                   /\ result.value[i].channel = ns[i].spairport_network_channel

\* two entries with networks, and an interface without a list before another
C7_Witness ==
    /\ SystemProfiler /\ Done /\ Conforms(text)
    /\ Len(text.SPAirPortDataType) = 2
    /\ \A e \in 1..2 : Len(NetworksOfEntry(text.SPAirPortDataType[e])) >= 1
    /\ result.kind = "Ok"
    /\ Len(result.value) = 2
    /\ result.value[1].ssid # result.value[2].ssid

C7_WitnessAbsentList ==
    /\ SystemProfiler /\ Done /\ Conforms(text)
    /\ \E e \in 1..Len(text.SPAirPortDataType) :
        LET is == text.SPAirPortDataType[e].spairport_airport_interfaces
        IN  /\ Len(is) >= 2
            /\ "spairport_airport_other_local_wireless_networks" \notin DOMAIN is[1]
            /\ Len(NetworksOfInterface(is[2])) = 2
    /\ result.kind = "Ok"
    /\ Len(result.value) = 2

\* the text before the first "/" (all of it when there is none)
BeforeSlash(v) ==
    IF Occurs(<<"/">>, v) THEN SubSeq(v, 1, OffsetOf(<<"/">>, v)) ELSE v

\* C8: signal_level is the signal/noise text before the first "/", trimmed
\* (the trimmed text itself without "/"); no value fails the parse.
C8_SignalLevelIsFirstSegmentTrimmed ==
    (SystemProfiler /\ Done /\ Conforms(text)) =>
        LET ns == NetworksOf(text)
        IN  /\ result.kind = "Ok"
            /\ Len(result.value) = Len(ns)
            /\ \A i \in 1..Len(ns) :
                   result.value[i].signal_level =
                       Trimmed(BeforeSlash(ns[i].spairport_signal_noise))

Minus67 == <<"-", "6", "7">>

\* "-67 / -90", "-67/-90" and "-67" all parsed to "-67"
C8_Witness ==
    /\ SystemProfiler /\ Done /\ result.kind = "Ok"
    /\ LET ns == NetworksOf(text)
       IN  /\ Len(ns) = 3
           /\ ns[1].spairport_signal_noise = Minus67 \o <<" ", "/", " ", "-", "9", "0">>
           /\ ns[2].spairport_signal_noise = Minus67 \o <<"/", "-", "9", "0">>
           /\ ns[3].spairport_signal_noise = Minus67
    /\ \A i \in 1..3 : result.value[i].signal_level = Minus67

\* an empty value and a value starting with "/" parsed to ""
C8_WitnessEmpty ==
    /\ SystemProfiler /\ Done /\ result.kind = "Ok"
    /\ LET ns == NetworksOf(text)
       IN  /\ Len(ns) = 2
           /\ ns[1].spairport_signal_noise = <<>>
           /\ ns[2].spairport_signal_noise[1] = "/"
    /\ \A i \in 1..2 : result.value[i].signal_level = <<>>

\* C9 as stated: stripping the prefix from a record's security, which is
\* already stripped, changes nothing: strip(strip(v)) = strip(v).
C9_StripIsIdempotent ==
    (SystemProfiler /\ Done /\ result.kind = "Ok") =>
        \A i \in 1..Len(result.value) :
            SecurityOf(result.value[i].security) = result.value[i].security

\* C9 amended: strip removes one copy of the prefix and no more: v without
\* the prefix is unchanged, prefix + w gives w, and strip(strip(v)) = strip(v)
\* unless strip(v) itself starts with the prefix.
C9_StripRemovesOnePrefix ==
    (SystemProfiler /\ Done /\ Conforms(text)) =>
        LET ns == NetworksOf(text)
        IN  /\ result.kind = "Ok"
            /\ Len(result.value) = Len(ns)
            /\ \A i \in 1..Len(ns) :
                LET v == ns[i].spairport_security_mode
                    w == result.value[i].security
                IN  /\ ~StartsWith(v, SecurityPrefix) => w = v
                    /\ StartsWith(v, SecurityPrefix) => v = SecurityPrefix \o w
                    /\ ~StartsWith(w, SecurityPrefix) => SecurityOf(w) = w

\* a prefixed value stripped, an unprefixed value kept
C9_Witness ==
    /\ SystemProfiler /\ Done /\ result.kind = "Ok"
    /\ LET ns == NetworksOf(text)
       IN  /\ Len(ns) = 2
           /\ ns[1].spairport_security_mode = SecurityPrefix \o <<"w", "p", "a", "2">>
           /\ ns[2].spairport_security_mode = <<"n", "o", "n", "e">>
    /\ result.value[1].security = <<"w", "p", "a", "2">>
    /\ result.value[2].security = <<"n", "o", "n", "e">>

\* C10: a data line with multi-byte characters that is aligned to the header
\* in characters gives the record of its character-position slices.
C10_SlicesByCharacterOffset ==
    (/\ Airport /\ Done /\ HasLines
     /\ HeaderLine = CanonicalHeader
     /\ \A i \in 1..Len(DataRows) : DataRows[i] \in AlignedLines) =>
        /\ result.kind = "Ok"
        /\ Len(result.value) = Len(DataRows)
        /\ \A i \in 1..Len(DataRows) :
               result.value[i] = CharRecord(DataRows[i], CharOffsets(HeaderLine))

====
